---- MODULE Spec2Model ----
(***************************************************************************)
(* Model of apps/appcorerun/src/mod_io.c: the generic IO module of the     *)
(* app-core framework.  The slot table _ctx.ios, the host-owned            *)
(* device-active flag, the levels of the physical lines and the calls the  *)
(* module makes into its collaborators (GPIO driver, button manager,       *)
(* app-core) are the state; the host callbacks (getData, iosetAction) and  *)
(* the two button-manager callbacks are the actions.                       *)
(*                                                                         *)
(* The fields name and pull of struct mio are only ever handed through to  *)
(* the GPIO driver and are left out of the slot record.                    *)
(***************************************************************************)
EXTENDS Integers, Sequences, FiniteSets, TLC

(* ------------------------------------------------------------------ *)
(* Program constants                                                  *)
(* ------------------------------------------------------------------ *)
NB_IOS == 8

IO_DIN == 0
IO_DOUT == 1
IO_BUTTON == 2
IO_STATE == 3
IO_AIN == 4
IO_PWMOUT == 5

IO_TYPE == {IO_DIN, IO_DOUT, IO_BUTTON, IO_STATE, IO_AIN, IO_PWMOUT}

\* length handed to app_core_msg_ul_addTLV by getData
UL_TLV_LEN == 12

MY_MOD_ID == "APP_MOD_PTI"
UL_APP_IO_STATE == "APP_CORE_UL_APP_SPECIFIC_START"
DL_APP_IO_SET == "APP_CORE_DL_APP_SPECIFIC_START"

\* SR_BUTTON_STATE_t of the button manager; the enumeration is declared in
\* the button manager's header, outside this file
SR_BUTTON_RELEASED == 0
SR_BUTTON_PRESSED == 1

SR_BUTTON_STATE_t == {SR_BUTTON_RELEASED, SR_BUTTON_PRESSED}

(* ------------------------------------------------------------------ *)
(* Bounds of the model                                                *)
(* ------------------------------------------------------------------ *)
\* press type codes a callback is invoked with: 0..MaxPressType
MaxPressType == 2
\* bytes of a downlink payload and initial values: 0..MaxByte
MaxByte == 1
\* levels a line can be sampled at: 0..MaxLevel, and ADC_OVER
MaxLevel == 1
\* longest downlink payload
MaxDLLen == 9

\* a sample wider than a byte, cut by the (uint8_t) cast of readIO
ADC_OVER == 257


Slots == 0 .. (NB_IOS - 1)
PressTypes == 0 .. MaxPressType
Bytes == 0 .. MaxByte
Levels == (0 .. MaxLevel) \cup {ADC_OVER}
\* the pin a populated slot i is wired to is pin i (pin 0 is a valid pin)
Pins == Slots
\* the two slots the deployment configuration populates (the first and the
\* last of the table); the others are defined unassigned
CfgLow == NB_IOS - NB_IOS
CfgHigh == NB_IOS - 1
\* opaque contexts a callback can be handed: a populated slot and the two
\* nearest values that are no slot index
CtxVals == {0 - 1, CfgHigh, NB_IOS}

VARIABLES
    ios,            \* _ctx.ios
    deviceActive,   \* what AppCore_isDeviceActive() returns
    pinLevel,       \* the level of each input line
    gpioOut,        \* the level last driven on each output line
    registered,     \* the callbacks the button manager holds
    pc, idx, ds,    \* getData in progress: its position, its i, its ds
    trace,          \* stores and calls of the most recent step, in order
    quietHarvests,  \* harvests completed since the last edge callback or
                    \* change of a polled level, counted up to 2
    lastEdge        \* per slot, the value the most recent edge callback
                    \* stored in it since the last harvest; NoEdge if none

vars == <<ios, deviceActive, pinLevel, gpioOut, registered, pc, idx, ds, trace, quietHarvests, lastEdge>>

(* ------------------------------------------------------------------ *)
(* Effects: stores to _ctx and calls to collaborators, program order   *)
(* ------------------------------------------------------------------ *)
Ev(call, id, args, data) == [call |-> call, id |-> id, args |-> args, data |-> data]

LogInfo(msg) == Ev("log_info", msg, <<>>, <<>>)
LogWarn(msg) == Ev("log_warn", msg, <<>>, <<>>)
StoreUL(i, v) == Ev("valueUL", "", <<i, v>>, <<>>)
StoreDL(i, v) == Ev("valueDL", "", <<i, v>>, <<>>)
\* the stores of defineIO to the record at offset i from _ctx.ios
StoreRecord(i, gpio, t, v) == Ev("ios[ioid]", "", <<i, gpio, t, v>>, <<>>)
GpioWriteEv(gpio, v) == Ev("GPIO_write", "", <<gpio, v>>, <<>>)
GpioReadEv(gpio) == Ev("GPIO_read", "", <<gpio>>, <<>>)
GpioReadADCEv(gpio) == Ev("GPIO_readADC", "", <<gpio>>, <<>>)
ForceULEv(mod) == Ev("AppCore_forceUL", mod, <<>>, <<>>)
AddTLVEv(tag, len, block) == Ev("app_core_msg_ul_addTLV", tag, <<len>>, block)

ToU8(x) == x % 256

NoEdge == 0 - 1

\* lastEdge after the stores to valueUL of the trace ev of a callback
AcceptedEdges(le, ev) ==
    [i \in Slots |->
        LET K == { k \in 1 .. Len(ev) : ev[k].call = "valueUL" /\ ev[k].args[1] = i }
        IN IF K = {} THEN le[i]
           ELSE ev[CHOOSE k \in K : \A j \in K : j <= k].args[2]]


(* ------------------------------------------------------------------ *)
(* Collaborators                                                      *)
(* ------------------------------------------------------------------ *)
\* GPIO_read / GPIO_readADC: the level the driver samples on a pin
GPIO_read(lv, gpio) == lv[gpio]
GPIO_readADC(lv, gpio) == lv[gpio]

\* the level last driven on each output line (-1: never driven), after the
\* driver has carried out the calls of ev
RECURSIVE DriveLines(_, _)
DriveLines(out, ev) ==
    IF ev = <<>> THEN out
    ELSE LET e == Head(ev)
             out1 == IF e.call \in {"GPIO_write", "GPIO_define_out"}
                     THEN [out EXCEPT ![e.args[1]] = e.args[2]]
                     ELSE out
         IN DriveLines(out1, Tail(ev))

\* the callbacks the button manager holds after the calls of ev
ButtonCBs(ev) ==
    { [cb |-> ev[k].id, gpio |-> ev[k].args[1], ctx |-> ev[k].args[2]] :
        k \in { j \in 1 .. Len(ev) : ev[j].call = "SRMgr_registerButtonCB" } }

(* ------------------------------------------------------------------ *)
(* Slot table and initialisation                                      *)
(* ------------------------------------------------------------------ *)
\* static struct appctx _ctx: zero-initialised storage
ZeroCtx == [i \in Slots |-> [gpio |-> 0, type |-> IO_DIN, valueDL |-> 0, valueUL |-> 0]]

\* defineIO stores to the record at offset ioid from _ctx.ios and tests
\* nothing: with ioid in 0 .. NB_IOS-1 the record is a slot of the table,
\* with any other ioid the stores land in the memory next to _ctx and the
\* table keeps its content
defineIO(c, ioid, gpio, t, initialValue) ==
    [ios |-> IF ioid \in Slots
             THEN [c EXCEPT ![ioid] = [gpio |-> gpio, type |-> t,
                                       valueDL |-> initialValue, valueUL |-> @.valueUL]]
             ELSE c,
     ev |-> <<StoreRecord(ioid, gpio, t, initialValue)>>]

\* one pass of the loop of initIOs: the calls made for slot i
initIO(c, i) ==
    IF c[i].gpio >= 0
    THEN CASE c[i].type = IO_DIN ->
                <<Ev("GPIO_define_in", "", <<c[i].gpio>>, <<>>)>>
           [] c[i].type = IO_AIN ->
                <<Ev("GPIO_define_adc", "", <<c[i].gpio>>, <<>>)>>
           [] c[i].type = IO_BUTTON ->
                <<Ev("SRMgr_defineButton", "", <<c[i].gpio>>, <<>>),
                  Ev("SRMgr_registerButtonCB", "buttonChangeCB", <<c[i].gpio, i>>, <<>>)>>
           [] c[i].type = IO_STATE ->
                <<Ev("SRMgr_defineButton", "", <<c[i].gpio>>, <<>>),
                  Ev("SRMgr_registerButtonCB", "stateInputChangeCB", <<c[i].gpio, i>>, <<>>)>>
           [] c[i].type = IO_DOUT ->
                <<Ev("GPIO_define_out", "", <<c[i].gpio, c[i].valueDL>>, <<>>)>>
           [] c[i].type = IO_PWMOUT -> <<>>
           [] OTHER -> <<>>
    ELSE <<>>

RECURSIVE initIOsFrom(_, _)
initIOsFrom(c, i) ==
    IF i >= NB_IOS THEN <<>> ELSE initIO(c, i) \o initIOsFrom(c, i + 1)

initIOs(c) == initIOsFrom(c, 0)

\* mod_io_init: the slot definitions of the configuration, the two
\* registrations with app-core, then initIOs
RECURSIVE DefineAll(_, _, _)
DefineAll(c, cfg, i) ==
    IF i >= NB_IOS THEN c
    ELSE DefineAll(defineIO(c, i, cfg[i].gpio, cfg[i].type, cfg[i].init).ios, cfg, i + 1)

mod_io_init(cfg) ==
    LET c == DefineAll(ZeroCtx, cfg, 0)
    IN [ios |-> c,
        ev |-> <<Ev("AppCore_registerModule", MY_MOD_ID, <<>>, <<>>),
                 Ev("AppCore_registerAction", DL_APP_IO_SET, <<>>, <<>>)>>
               \o initIOs(c) \o <<LogInfo("MIO: io operation initialised")>>]

\* the configurations of the deployment: the slots CfgLow and CfgHigh are of
\* any kind, wired to their pin or unassigned; slot CfgLow is given any
\* initial value v and slot CfgHigh the value MaxByte - v; every other slot
\* is defined unassigned
Unassigned == [gpio |-> 0 - 1, type |-> IO_DIN, init |-> 0]
SlotCfgs(i, v) == { [gpio |-> g, type |-> t, init |-> v] :
                       g \in {0 - 1, i}, t \in IO_TYPE }
Configs == UNION { { [i \in Slots |-> IF i = CfgLow THEN a
                                     ELSE IF i = CfgHigh THEN b ELSE Unassigned] :
                       a \in SlotCfgs(CfgLow, v), b \in SlotCfgs(CfgHigh, MaxByte - v) } :
                   v \in Bytes }

(* ------------------------------------------------------------------ *)
(* Driver adapter                                                     *)
(* ------------------------------------------------------------------ *)
\* readIO with a slip: an output slot reads back the value it was set to
readIO_EchoOutputs(c, lv, ioid) ==
    IF ioid >= 0 /\ ioid < NB_IOS
    THEN LET r == IF c[ioid].gpio >= 0
                  THEN CASE c[ioid].type = IO_DIN ->
                              LET v == ToU8(GPIO_read(lv, c[ioid].gpio))
                              IN [ios |-> [c EXCEPT ![ioid].valueUL = v],
                                  ev |-> <<GpioReadEv(c[ioid].gpio), StoreUL(ioid, v)>>]
                         [] c[ioid].type = IO_AIN ->
                              LET v == ToU8(GPIO_readADC(lv, c[ioid].gpio))
                              IN [ios |-> [c EXCEPT ![ioid].valueUL = v],
                                  ev |-> <<GpioReadADCEv(c[ioid].gpio), StoreUL(ioid, v)>>]
                         [] c[ioid].type = IO_DOUT ->
                              [ios |-> [c EXCEPT ![ioid].valueUL = c[ioid].valueDL],
                               ev |-> <<StoreUL(ioid, c[ioid].valueDL)>>]
                         [] OTHER -> [ios |-> c, ev |-> <<>>]
                  ELSE [ios |-> c, ev |-> <<>>]
         IN [ios |-> r.ios, ev |-> r.ev, ret |-> r.ios[ioid].valueUL]
    ELSE [ios |-> c, ev |-> <<>>, ret |-> 0]

\* readIO with a slip: 0 is returned for a slot whose pin is unassigned
readIO_UnassignedZero(c, lv, ioid) ==
    IF ioid >= 0 /\ ioid < NB_IOS /\ c[ioid].gpio >= 0
    THEN LET r == CASE c[ioid].type = IO_DIN ->
                         LET v == ToU8(GPIO_read(lv, c[ioid].gpio))
                         IN [ios |-> [c EXCEPT ![ioid].valueUL = v],
                             ev |-> <<GpioReadEv(c[ioid].gpio), StoreUL(ioid, v)>>]
                    [] c[ioid].type = IO_AIN ->
                         LET v == ToU8(GPIO_readADC(lv, c[ioid].gpio))
                         IN [ios |-> [c EXCEPT ![ioid].valueUL = v],
                             ev |-> <<GpioReadADCEv(c[ioid].gpio), StoreUL(ioid, v)>>]
                    [] OTHER -> [ios |-> c, ev |-> <<>>]
         IN [ios |-> r.ios, ev |-> r.ev, ret |-> r.ios[ioid].valueUL]
    ELSE [ios |-> c, ev |-> <<>>, ret |-> 0]

\* readIO with a slip: button and state input slots are sampled like
\* digital inputs
readIO_PollsButtons(c, lv, ioid) ==
    IF ioid >= 0 /\ ioid < NB_IOS
    THEN LET r == IF c[ioid].gpio >= 0
                  THEN CASE c[ioid].type \in {IO_DIN, IO_BUTTON, IO_STATE} ->
                              LET v == ToU8(GPIO_read(lv, c[ioid].gpio))
                              IN [ios |-> [c EXCEPT ![ioid].valueUL = v],
                                  ev |-> <<GpioReadEv(c[ioid].gpio), StoreUL(ioid, v)>>]
                         [] c[ioid].type = IO_AIN ->
                              LET v == ToU8(GPIO_readADC(lv, c[ioid].gpio))
                              IN [ios |-> [c EXCEPT ![ioid].valueUL = v],
                                  ev |-> <<GpioReadADCEv(c[ioid].gpio), StoreUL(ioid, v)>>]
                         [] OTHER -> [ios |-> c, ev |-> <<>>]
                  ELSE [ios |-> c, ev |-> <<>>]
         IN [ios |-> r.ios, ev |-> r.ev, ret |-> r.ios[ioid].valueUL]
    ELSE [ios |-> c, ev |-> <<>>, ret |-> 0]

readIO(c, lv, ioid) ==
    IF ioid >= 0 /\ ioid < NB_IOS
    THEN LET r == IF c[ioid].gpio >= 0
                  THEN CASE c[ioid].type = IO_DIN ->
                              LET v == ToU8(GPIO_read(lv, c[ioid].gpio))
                              IN [ios |-> [c EXCEPT ![ioid].valueUL = v],
                                  ev |-> <<GpioReadEv(c[ioid].gpio), StoreUL(ioid, v)>>]
                         [] c[ioid].type = IO_AIN ->
                              LET v == ToU8(GPIO_readADC(lv, c[ioid].gpio))
                              IN [ios |-> [c EXCEPT ![ioid].valueUL = v],
                                  ev |-> <<GpioReadADCEv(c[ioid].gpio), StoreUL(ioid, v)>>]
                         [] OTHER -> [ios |-> c, ev |-> <<>>]
                  ELSE [ios |-> c, ev |-> <<>>]
         IN [ios |-> r.ios, ev |-> r.ev, ret |-> r.ios[ioid].valueUL]
    ELSE [ios |-> c, ev |-> <<>>, ret |-> 0]

\* writeIO with a slip: the pin of the slot is not looked at
writeIO_NoPinCheck(c, ioid, val) ==
    IF ioid >= 0 /\ ioid < NB_IOS
    THEN CASE c[ioid].type = IO_DOUT ->
                <<GpioWriteEv(c[ioid].gpio, c[ioid].valueDL)>>
           [] c[ioid].type = IO_PWMOUT -> <<>>
           [] OTHER -> <<>>
    ELSE <<>>

\* the calls writeIO makes; it stores nothing
writeIO(c, ioid, val) ==
    IF ioid >= 0 /\ ioid < NB_IOS
    THEN IF c[ioid].gpio >= 0
         THEN CASE c[ioid].type = IO_DOUT ->
                     <<GpioWriteEv(c[ioid].gpio, c[ioid].valueDL)>>
                [] c[ioid].type = IO_PWMOUT -> <<>>
                [] OTHER -> <<>>
         ELSE <<>>
    ELSE <<>>

RECURSIVE readIOsFrom(_, _, _, _)
readIOsFrom(c, lv, i, ev) ==
    IF i >= NB_IOS THEN [ios |-> c, ev |-> ev]
    ELSE LET r == readIO(c, lv, i)
         IN readIOsFrom(r.ios, lv, i + 1, ev \o r.ev)

readIOs(c, lv) == readIOsFrom(c, lv, 0, <<>>)

(* ------------------------------------------------------------------ *)
(* Downlink action                                                    *)
(* ------------------------------------------------------------------ *)
\* iosetLoop with a slip: only DigitalOut slots are taken for outputs
RECURSIVE iosetLoop_DoutOnly(_, _, _, _)
iosetLoop_DoutOnly(c, v, i, ev) ==
    IF i >= NB_IOS THEN [ios |-> c, ev |-> ev]
    ELSE IF c[i].type = IO_DOUT
         THEN LET c1 == [c EXCEPT ![i].valueDL = v[i + 1]]
              IN iosetLoop_DoutOnly(c1, v, i + 1,
                                    ev \o <<StoreDL(i, v[i + 1])>> \o writeIO(c1, i, v[i + 1])
                                       \o <<LogInfo("DL io set")>>)
         ELSE iosetLoop_DoutOnly(c, v, i + 1, ev)

\* iosetLoop with a slip: the line is written before valueDL is stored
RECURSIVE iosetLoop_WriteBeforeStore(_, _, _, _)
iosetLoop_WriteBeforeStore(c, v, i, ev) ==
    IF i >= NB_IOS THEN [ios |-> c, ev |-> ev]
    ELSE IF c[i].type = IO_DOUT \/ c[i].type = IO_PWMOUT
         THEN LET c1 == [c EXCEPT ![i].valueDL = v[i + 1]]
              IN iosetLoop_WriteBeforeStore(c1, v, i + 1,
                           ev \o writeIO(c, i, v[i + 1]) \o <<StoreDL(i, v[i + 1])>>
                              \o <<LogInfo("DL io set")>>)
         ELSE iosetLoop_WriteBeforeStore(c, v, i + 1, ev)

\* the loop of iosetAction from slot i on; v[i] of the code is v[i + 1] here
RECURSIVE iosetLoop(_, _, _, _)
iosetLoop(c, v, i, ev) ==
    IF i >= NB_IOS THEN [ios |-> c, ev |-> ev]
    ELSE IF c[i].type = IO_DOUT \/ c[i].type = IO_PWMOUT
         THEN LET c1 == [c EXCEPT ![i].valueDL = v[i + 1]]
              IN iosetLoop(c1, v, i + 1,
                           ev \o <<StoreDL(i, v[i + 1])>> \o writeIO(c1, i, v[i + 1])
                              \o <<LogInfo("DL io set")>>)
         ELSE iosetLoop(c, v, i + 1, ev)

\* iosetAction with a slip: a payload longer than NB_IOS is accepted
iosetAction_AtLeastLength(c, v, l) ==
    IF l >= NB_IOS
    THEN LET r == iosetLoop(c, v, 0, <<>>)
         IN [ios |-> r.ios, ev |-> r.ev \o <<LogInfo("DL ios set")>>]
    ELSE [ios |-> c, ev |-> <<LogWarn("DL ios not set as wrong length")>>]

iosetAction(c, v, l) ==
    IF l = NB_IOS
    THEN LET r == iosetLoop(c, v, 0, <<>>)
         IN [ios |-> r.ios, ev |-> r.ev \o <<LogInfo("DL ios set")>>]
    ELSE [ios |-> c, ev |-> <<LogWarn("DL ios not set as wrong length")>>]

(* ------------------------------------------------------------------ *)
(* Edge callbacks                                                     *)
(* ------------------------------------------------------------------ *)
\* buttonChangeCB with a slip: the state of the button is not looked at
buttonChangeCB_AnyState(c, active, ctx, currentState, currentPressType) ==
    IF active
    THEN LET bid == ctx
         IN IF bid >= 0 /\ bid < NB_IOS
            THEN [ios |-> [c EXCEPT ![bid].valueUL = ToU8(currentPressType)],
                  ev |-> <<LogInfo("MIO:button released"),
                           StoreUL(bid, ToU8(currentPressType)),
                           ForceULEv(MY_MOD_ID)>>]
            ELSE [ios |-> c, ev |-> <<LogWarn("MIO:button release but bad id")>>]
    ELSE [ios |-> c, ev |-> <<LogInfo("MIO:button release ignore not active")>>]

\* buttonChangeCB with a slip: the index one past the table is let through
buttonChangeCB_OffByOne(c, active, ctx, currentState, currentPressType) ==
    IF currentState = SR_BUTTON_RELEASED
    THEN IF active
         THEN LET bid == ctx
              IN IF bid >= 0 /\ bid <= NB_IOS
                 THEN [ios |-> [c EXCEPT ![bid].valueUL = ToU8(currentPressType)],
                       ev |-> <<LogInfo("MIO:button released"),
                                StoreUL(bid, ToU8(currentPressType)),
                                ForceULEv(MY_MOD_ID)>>]
                 ELSE [ios |-> c, ev |-> <<LogWarn("MIO:button release but bad id")>>]
         ELSE [ios |-> c, ev |-> <<LogInfo("MIO:button release ignore not active")>>]
    ELSE [ios |-> c, ev |-> <<LogInfo("MIO:button pressed")>>]

\* buttonChangeCB with a slip: a press clears the value of the slot
buttonChangeCB_ClearsOnPress(c, active, ctx, currentState, currentPressType) ==
    IF currentState = SR_BUTTON_RELEASED
    THEN IF active
         THEN LET bid == ctx
              IN IF bid >= 0 /\ bid < NB_IOS
                 THEN [ios |-> [c EXCEPT ![bid].valueUL = ToU8(currentPressType)],
                       ev |-> <<LogInfo("MIO:button released"),
                                StoreUL(bid, ToU8(currentPressType)),
                                ForceULEv(MY_MOD_ID)>>]
                 ELSE [ios |-> c, ev |-> <<LogWarn("MIO:button release but bad id")>>]
         ELSE [ios |-> c, ev |-> <<LogInfo("MIO:button release ignore not active")>>]
    ELSE IF ctx >= 0 /\ ctx < NB_IOS
         THEN [ios |-> [c EXCEPT ![ctx].valueUL = 0],
               ev |-> <<LogInfo("MIO:button pressed"), StoreUL(ctx, 0)>>]
         ELSE [ios |-> c, ev |-> <<LogInfo("MIO:button pressed")>>]

buttonChangeCB(c, active, ctx, currentState, currentPressType) ==
    IF currentState = SR_BUTTON_RELEASED
    THEN IF active
         THEN LET bid == ctx
              IN IF bid >= 0 /\ bid < NB_IOS
                 THEN [ios |-> [c EXCEPT ![bid].valueUL = ToU8(currentPressType)],
                       ev |-> <<LogInfo("MIO:button released"),
                                StoreUL(bid, ToU8(currentPressType)),
                                ForceULEv(MY_MOD_ID)>>]
                 ELSE [ios |-> c, ev |-> <<LogWarn("MIO:button release but bad id")>>]
         ELSE [ios |-> c, ev |-> <<LogInfo("MIO:button release ignore not active")>>]
    ELSE [ios |-> c, ev |-> <<LogInfo("MIO:button pressed")>>]

\* stateInputChangeCB with a slip: the activity of the device is not looked at
stateInputChangeCB_NoActiveCheck(c, active, ctx, currentState, currentPressType) ==
    LET bid == ctx
    IN IF bid >= 0 /\ bid < NB_IOS
       THEN [ios |-> [c EXCEPT ![bid].valueUL = ToU8(currentState)],
             ev |-> <<LogInfo("MIO:state input changed"),
                      StoreUL(bid, ToU8(currentState)),
                      ForceULEv(MY_MOD_ID)>>]
       ELSE [ios |-> c, ev |-> <<LogWarn("MIO:input state change but bad id")>>]

\* stateInputChangeCB with a slip: the press type is stored for the state
stateInputChangeCB_StoresPressType(c, active, ctx, currentState, currentPressType) ==
    IF active
    THEN LET bid == ctx
         IN IF bid >= 0 /\ bid < NB_IOS
            THEN [ios |-> [c EXCEPT ![bid].valueUL = ToU8(currentPressType)],
                  ev |-> <<LogInfo("MIO:state input changed"),
                           StoreUL(bid, ToU8(currentPressType)),
                           ForceULEv(MY_MOD_ID)>>]
            ELSE [ios |-> c, ev |-> <<LogWarn("MIO:input state change but bad id")>>]
    ELSE [ios |-> c, ev |-> <<LogInfo("MIO:input state change ignore not active")>>]

stateInputChangeCB(c, active, ctx, currentState, currentPressType) ==
    IF active
    THEN LET bid == ctx
         IN IF bid >= 0 /\ bid < NB_IOS
            THEN [ios |-> [c EXCEPT ![bid].valueUL = ToU8(currentState)],
                  ev |-> <<LogInfo("MIO:state input changed"),
                           StoreUL(bid, ToU8(currentState)),
                           ForceULEv(MY_MOD_ID)>>]
            ELSE [ios |-> c, ev |-> <<LogWarn("MIO:input state change but bad id")>>]
    ELSE [ios |-> c, ev |-> <<LogInfo("MIO:input state change ignore not active")>>]

(* ------------------------------------------------------------------ *)
(* Report builder                                                     *)
(* ------------------------------------------------------------------ *)
\* harvestLoop with a slip: the slot is not reset after it is copied
RECURSIVE harvestLoop_NoReset(_, _, _, _)
harvestLoop_NoReset(c, i, block, ev) ==
    IF i >= NB_IOS THEN [ios |-> c, ds |-> block, ev |-> ev]
    ELSE harvestLoop_NoReset(c, i + 1, Append(block, c[i].valueUL), ev)

\* harvestLoop with a slip: the slot is reset before it is copied
RECURSIVE harvestLoop_ResetBeforeCopy(_, _, _, _)
harvestLoop_ResetBeforeCopy(c, i, block, ev) ==
    IF i >= NB_IOS THEN [ios |-> c, ds |-> block, ev |-> ev]
    ELSE LET c1 == [c EXCEPT ![i].valueUL = 0]
         IN harvestLoop_ResetBeforeCopy(c1, i + 1, Append(block, c1[i].valueUL),
                                        Append(ev, StoreUL(i, 0)))

\* the loop of getData from slot i on: copy to the report, then reset
RECURSIVE harvestLoop(_, _, _, _)
harvestLoop(c, i, block, ev) ==
    IF i >= NB_IOS THEN [ios |-> c, ds |-> block, ev |-> ev]
    ELSE harvestLoop([c EXCEPT ![i].valueUL = 0], i + 1,
                     Append(block, c[i].valueUL), Append(ev, StoreUL(i, 0)))

\* getData with a slip: the polled slots are not refreshed first
getData_NoRefresh(c, lv, active) ==
    LET h == harvestLoop(c, 0, <<>>, <<>>)
        block == Append(h.ds, IF active THEN 1 ELSE 0)
    IN [ios |-> h.ios, ret |-> TRUE,
        ev |-> <<LogInfo("MIO: UL")>> \o h.ev
               \o <<AddTLVEv(UL_APP_IO_STATE, UL_TLV_LEN, block)>>]

\* getData run from its first to its last line without preemption
getData(c, lv, active) ==
    LET r == readIOs(c, lv)
        h == harvestLoop(r.ios, 0, <<>>, <<>>)
        block == Append(h.ds, IF active THEN 1 ELSE 0)
    IN [ios |-> h.ios, ret |-> TRUE,
        ev |-> <<LogInfo("MIO: UL")>> \o r.ev \o h.ev
               \o <<AddTLVEv(UL_APP_IO_STATE, UL_TLV_LEN, block)>>]

(* ------------------------------------------------------------------ *)
(* Initial state: after mod_io_init                                   *)
(* ------------------------------------------------------------------ *)
Init ==
    \E cfg \in Configs :
        LET r == mod_io_init(cfg)
        IN /\ ios = r.ios
           /\ trace = r.ev
           /\ gpioOut = DriveLines([p \in Pins |-> 0 - 1], r.ev)
           /\ registered = ButtonCBs(r.ev)
           /\ deviceActive \in BOOLEAN
           /\ pinLevel = [p \in Pins |-> 0]
           /\ pc = "idle"
           /\ idx = 0
           /\ ds = <<>>
           /\ quietHarvests = 0
           /\ lastEdge = [i \in Slots |-> NoEdge]

(* ------------------------------------------------------------------ *)
(* Environment                                                        *)
(* ------------------------------------------------------------------ *)
\* the host changes the activity of the device
SetDeviceActive(b) ==
    /\ deviceActive # b
    /\ deviceActive' = b
    /\ trace' = <<>>
    /\ UNCHANGED <<ios, pinLevel, gpioOut, registered, pc, idx, ds, quietHarvests, lastEdge>>

\* pins a polled slot samples
PolledPins == { ios[i].gpio : i \in { j \in Slots : ios[j].gpio >= 0
                                       /\ ios[j].type \in {IO_DIN, IO_AIN} } }

\* the level of a polled line changes
SetPinLevel(p, v) ==
    /\ p \in PolledPins
    /\ pinLevel[p] # v
    /\ pinLevel' = [pinLevel EXCEPT ![p] = v]
    /\ trace' = <<>>
    /\ quietHarvests' = 0
    /\ UNCHANGED <<ios, deviceActive, gpioOut, registered, pc, idx, ds, lastEdge>>

(* ------------------------------------------------------------------ *)
(* Host operations and callbacks as steps                             *)
(* ------------------------------------------------------------------ *)
\* downlink payloads: any byte a at the odd positions of the code's v (so at
\* v[CfgHigh]) and the byte MaxByte - a at the even ones (so at v[CfgLow])
DLLens == {0} \cup ((NB_IOS - 1) .. MaxDLLen)
Payloads == { [i \in 1 .. l |-> IF i % 2 = 0 THEN a ELSE MaxByte - a] :
                l \in DLLens, a \in Bytes }

IosetAction(v) ==
    /\ pc = "idle"
    /\ LET r == iosetAction(ios, v, Len(v))
       IN /\ ios' = r.ios
          /\ trace' = r.ev
          /\ gpioOut' = DriveLines(gpioOut, r.ev)
    /\ UNCHANGED <<deviceActive, pinLevel, registered, pc, idx, ds, quietHarvests, lastEdge>>

ButtonChange(ctx, st, pt) ==
    /\ LET r == buttonChangeCB(ios, deviceActive, ctx, st, pt)
       IN /\ ios' = r.ios
          /\ trace' = r.ev
          /\ lastEdge' = AcceptedEdges(lastEdge, r.ev)
    /\ quietHarvests' = 0
    /\ UNCHANGED <<deviceActive, pinLevel, gpioOut, registered, pc, idx, ds>>

StateInputChange(ctx, st, pt) ==
    /\ LET r == stateInputChangeCB(ios, deviceActive, ctx, st, pt)
       IN /\ ios' = r.ios
          /\ trace' = r.ev
          /\ lastEdge' = AcceptedEdges(lastEdge, r.ev)
    /\ quietHarvests' = 0
    /\ UNCHANGED <<deviceActive, pinLevel, gpioOut, registered, pc, idx, ds>>

\* the button manager invokes a callback it holds, with the context it
\* was registered with
ButtonCB ==
    \E r \in registered, st \in SR_BUTTON_STATE_t, pt \in PressTypes :
        /\ r.cb = "buttonChangeCB"
        /\ ButtonChange(r.ctx, st, pt)

StateCB ==
    \E r \in registered, st \in SR_BUTTON_STATE_t, pt \in PressTypes :
        /\ r.cb = "stateInputChangeCB"
        /\ StateInputChange(r.ctx, st, pt)

\* getData as one step: no callback runs inside it
GetData ==
    /\ pc = "idle"
    /\ LET r == getData(ios, pinLevel, deviceActive)
       IN /\ ios' = r.ios
          /\ trace' = Append(r.ev, Ev("return", "getData", <<IF r.ret THEN 1 ELSE 0>>, <<>>))
    /\ quietHarvests' = IF quietHarvests < 2 THEN quietHarvests + 1 ELSE quietHarvests
    /\ lastEdge' = [i \in Slots |-> NoEdge]
    /\ UNCHANGED <<deviceActive, pinLevel, gpioOut, registered, pc, idx, ds>>

Env ==
    \/ \E b \in BOOLEAN : SetDeviceActive(b)
    \/ \E p \in Pins, v \in Levels : SetPinLevel(p, v)

\* host operations run one at a time and callbacks run between them
Next ==
    \/ GetData
    \/ \E v \in Payloads : IosetAction(v)
    \/ ButtonCB
    \/ StateCB
    \/ Env

Spec == Init /\ [][Next]_vars

(* ------------------------------------------------------------------ *)
(* getData statement by statement, preempted by the callbacks         *)
(* ------------------------------------------------------------------ *)
\* entry of getData: the log line, then readIOs starts at slot 0
GetDataBegin ==
    /\ pc = "idle"
    /\ pc' = "readIOs"
    /\ idx' = 0
    /\ ds' = <<>>
    /\ trace' = <<LogInfo("MIO: UL")>>
    /\ UNCHANGED <<ios, deviceActive, pinLevel, gpioOut, registered, quietHarvests, lastEdge>>

\* one pass of the loop of readIOs
GetDataReadIO ==
    /\ pc = "readIOs"
    /\ LET r == readIO(ios, pinLevel, idx)
       IN /\ ios' = r.ios
          /\ trace' = r.ev
    /\ IF idx + 1 < NB_IOS
       THEN idx' = idx + 1 /\ pc' = pc
       ELSE idx' = 0 /\ pc' = "copy"
    /\ UNCHANGED <<deviceActive, pinLevel, gpioOut, registered, ds, quietHarvests, lastEdge>>

\* ds[i] = _ctx.ios[i].valueUL
GetDataCopy ==
    /\ pc = "copy"
    /\ ds' = Append(ds, ios[idx].valueUL)
    /\ pc' = "reset"
    /\ trace' = <<>>
    /\ lastEdge' = [lastEdge EXCEPT ![idx] = NoEdge]
    /\ UNCHANGED <<ios, deviceActive, pinLevel, gpioOut, registered, idx, quietHarvests>>

\* _ctx.ios[i].valueUL = 0; i++
GetDataReset ==
    /\ pc = "reset"
    /\ ios' = [ios EXCEPT ![idx].valueUL = 0]
    /\ trace' = <<StoreUL(idx, 0)>>
    /\ IF idx + 1 < NB_IOS
       THEN idx' = idx + 1 /\ pc' = "copy"
       ELSE idx' = idx + 1 /\ pc' = "flag"
    /\ UNCHANGED <<deviceActive, pinLevel, gpioOut, registered, ds, quietHarvests, lastEdge>>

\* ds[NB_IOS] = (AppCore_isDeviceActive()?1:0)
GetDataFlag ==
    /\ pc = "flag"
    /\ ds' = Append(ds, IF deviceActive THEN 1 ELSE 0)
    /\ pc' = "addTLV"
    /\ trace' = <<>>
    /\ UNCHANGED <<ios, deviceActive, pinLevel, gpioOut, registered, idx, quietHarvests, lastEdge>>

\* app_core_msg_ul_addTLV(ul, UL_APP_IO_STATE, 12, &ds[0]); return true
GetDataAddTLV ==
    /\ pc = "addTLV"
    /\ trace' = <<AddTLVEv(UL_APP_IO_STATE, UL_TLV_LEN, ds),
                  Ev("return", "getData", <<1>>, <<>>)>>
    /\ pc' = "idle"
    /\ idx' = 0
    /\ ds' = <<>>
    /\ quietHarvests' = IF quietHarvests < 2 THEN quietHarvests + 1 ELSE quietHarvests
    /\ UNCHANGED <<ios, deviceActive, pinLevel, gpioOut, registered, lastEdge>>

\* the host runs its operations one at a time; the callbacks and the
\* environment cut in between any two statements of getData
NextRace ==
    \/ GetDataBegin
    \/ GetDataReadIO
    \/ GetDataCopy
    \/ GetDataReset
    \/ GetDataFlag
    \/ GetDataAddTLV
    \/ \E v \in Payloads : IosetAction(v)
    \/ ButtonCB
    \/ StateCB
    \/ Env

SpecRace == Init /\ [][NextRace]_vars

(* ------------------------------------------------------------------ *)
(* The callbacks as functions of any context                          *)
(* ------------------------------------------------------------------ *)
ButtonCBAny ==
    \E ctx \in CtxVals, st \in SR_BUTTON_STATE_t, pt \in PressTypes :
        ButtonChange(ctx, st, pt)

StateCBAny ==
    \E ctx \in CtxVals, st \in SR_BUTTON_STATE_t, pt \in PressTypes :
        StateInputChange(ctx, st, pt)

\* the callbacks applied to any context, between harvests
NextAnyCtx ==
    \/ GetData
    \/ ButtonCBAny
    \/ StateCBAny
    \/ \E b \in BOOLEAN : SetDeviceActive(b)

SpecAnyCtx == Init /\ [][NextAnyCtx]_vars

(* ------------------------------------------------------------------ *)
(* The slot definitions, before initIOs                               *)
(* ------------------------------------------------------------------ *)
\* the zero-initialised static storage, nothing configured yet
InitDefine ==
    /\ ios = ZeroCtx
    /\ trace = <<>>
    /\ gpioOut = [p \in Pins |-> 0 - 1]
    /\ registered = {}
    /\ deviceActive = FALSE
    /\ pinLevel = [p \in Pins |-> 0]
    /\ pc = "idle"
    /\ idx = 0
    /\ ds = <<>>
    /\ quietHarvests = 0
    /\ lastEdge = [i \in Slots |-> NoEdge]

\* the slot numbers a definition is given: the two slots of the
\* configurations and the numbers just outside the table
DefIds == CtxVals \cup {CfgLow}

DefineIO(ioid, gpio, t, initialValue) ==
    /\ LET r == defineIO(ios, ioid, gpio, t, initialValue)
       IN /\ ios' = r.ios
          /\ trace' = r.ev
    /\ UNCHANGED <<deviceActive, pinLevel, gpioOut, registered, pc, idx, ds, quietHarvests, lastEdge>>

\* the definitions given: a slot of any kind on pin CfgHigh or on no pin,
\* with initial value MaxByte, or the unassigned slot
DefCfgs == SlotCfgs(CfgHigh, MaxByte) \cup {Unassigned}

NextDefine ==
    \E ioid \in DefIds, cfg \in DefCfgs :
        DefineIO(ioid, cfg.gpio, cfg.type, cfg.init)

SpecDefine == InitDefine /\ [][NextDefine]_vars

(* ================================================================== *)
(* Properties                                                         *)
(* ================================================================== *)
\* positions of the calls named call in a trace
CallsOf(ev, call) == { k \in 1 .. Len(ev) : ev[k].call = call }

\* the last step completed a harvest; Report is the array it handed over
\* (ReportOf(ev) is the array a trace ev hands to the uplink encoder)
ReportOf(ev) == ev[CHOOSE k \in CallsOf(ev, "app_core_msg_ul_addTLV") : TRUE].data
Harvested == CallsOf(trace, "app_core_msg_ul_addTLV") # {}
Report == ReportOf(trace)

\* ev stores v in valueUL of slot i and then requests exactly one forced
\* report, scoped to this module
StoreThenOneForceUL(ev, i, v) ==
    /\ Cardinality(CallsOf(ev, "AppCore_forceUL")) = 1
    /\ \A k \in CallsOf(ev, "AppCore_forceUL") :
          /\ ev[k].id = MY_MOD_ID
          /\ \E j \in 1 .. (k - 1) : ev[j] = StoreUL(i, v)

(* ------------------------------------------------------------------ *)
(* C1: a value an edge callback stores while a harvest is in progress  *)
(* is never lost: when harvest resets slot i to zero, the value it     *)
(* overwrites is the value it has just copied into its report.         *)
(* ------------------------------------------------------------------ *)
C1_ResetNeverOverwritesNewerEdge ==
    pc = "reset" => ios[idx].valueUL = ds[idx + 1]

(* ------------------------------------------------------------------ *)
(* C2: a downlink output-set whose length is not NB_IOS changes no     *)
(* slot's valueDL and makes no GPIO_write, whatever the configuration  *)
(* and the bytes.                                                      *)
(* ------------------------------------------------------------------ *)
C2_WrongLengthRejected ==
    \A v \in Payloads :
        Len(v) # NB_IOS
           => LET r == iosetAction(ios, v, Len(v))
              IN /\ \A i \in Slots : r.ios[i].valueDL = ios[i].valueDL
                 /\ CallsOf(r.ev, "GPIO_write") = {}
                 /\ DriveLines(gpioOut, r.ev) = gpioOut

\* a downlink of a wrong length was rejected on a table that holds a wired
\* output slot whose value the payload would have changed
C2_Witness ==
    /\ trace = <<LogWarn("DL ios not set as wrong length")>>
    /\ \E i \in Slots : ios[i].type = IO_DOUT /\ ios[i].gpio >= 0 /\ ios[i].valueDL = 1

(* ------------------------------------------------------------------ *)
(* C3: a downlink output-set of length NB_IOS sets valueDL of every    *)
(* DigitalOut and PwmOut slot to the byte at the slot's index and      *)
(* leaves valueDL of every other slot unchanged.                       *)
(* ------------------------------------------------------------------ *)
C3_RightLengthSetsOutputsOnly ==
    \A v \in Payloads :
        Len(v) = NB_IOS
           => LET r == iosetAction(ios, v, Len(v))
              IN \A i \in Slots :
                    IF ios[i].type \in {IO_DOUT, IO_PWMOUT}
                    THEN r.ios[i].valueDL = v[i + 1]
                    ELSE r.ios[i].valueDL = ios[i].valueDL

\* a downlink set a PwmOut slot to 1 while another slot, not an output,
\* kept its valueDL
C3_Witness ==
    \E i, j \in Slots :
        /\ ios[i].type = IO_PWMOUT
        /\ \E k \in 1 .. Len(trace) : trace[k] = StoreDL(i, 1)
        /\ ios[j].type \in {IO_DIN, IO_AIN, IO_BUTTON, IO_STATE}
        /\ ios[j].gpio >= 0
        /\ ios[j].valueDL = 0
        /\ CallsOf(trace, "valueDL") = {k \in 1 .. Len(trace) : trace[k] = StoreDL(i, 1)}

(* ------------------------------------------------------------------ *)
(* C4: device active, valid slot index: a button callback with state   *)
(* released stores the press type code in the slot's valueUL and then  *)
(* requests exactly one forced report scoped to this module; with      *)
(* state pressed it changes no slot and requests no forced report.     *)
(* ------------------------------------------------------------------ *)
C4_ButtonReleaseStoresThenForces ==
    deviceActive
       => \A ctx \in Slots, pt \in PressTypes :
             LET rel == buttonChangeCB(ios, deviceActive, ctx, SR_BUTTON_RELEASED, pt)
                 prs == buttonChangeCB(ios, deviceActive, ctx, SR_BUTTON_PRESSED, pt)
             IN /\ rel.ios = [ios EXCEPT ![ctx].valueUL = pt]
                /\ StoreThenOneForceUL(rel.ev, ctx, pt)
                /\ prs.ios = ios
                /\ CallsOf(prs.ev, "AppCore_forceUL") = {}

\* a release with press type 2 was taken for a Button slot that held 1
C4_Witness ==
    \E i \in Slots :
        /\ ios[i].type = IO_BUTTON
        /\ ios[i].valueUL = 2
        /\ deviceActive
        /\ trace = <<LogInfo("MIO:button released"), StoreUL(i, 2), ForceULEv(MY_MOD_ID)>>

(* ------------------------------------------------------------------ *)
(* C5: an edge event (button callback with any state, or state-change  *)
(* callback) delivered while the device is not active changes no       *)
(* slot's valueUL or valueDL and requests no forced report.            *)
(* ------------------------------------------------------------------ *)
C5_InactiveEdgeIgnored ==
    ~deviceActive
       => \A ctx \in CtxVals, st \in SR_BUTTON_STATE_t, pt \in PressTypes :
             LET b == buttonChangeCB(ios, deviceActive, ctx, st, pt)
                 c == stateInputChangeCB(ios, deviceActive, ctx, st, pt)
             IN /\ b.ios = ios
                /\ CallsOf(b.ev, "AppCore_forceUL") = {}
                /\ c.ios = ios
                /\ CallsOf(c.ev, "AppCore_forceUL") = {}

\* a state change was ignored while the device was not active
C5_Witness ==
    /\ ~deviceActive
    /\ trace = <<LogInfo("MIO:input state change ignore not active")>>
    /\ \E r \in registered : r.cb = "stateInputChangeCB"

(* ------------------------------------------------------------------ *)
(* C6: when two harvests follow each other with no edge callback and   *)
(* no change of a polled level in between, the first NB_IOS bytes of   *)
(* the second report are all zero.                                     *)
(* ------------------------------------------------------------------ *)
C6_SecondHarvestAllZero ==
    (quietHarvests = 2 /\ Harvested) => \A i \in Slots : Report[i + 1] = 0

\* slot i is polled by readIO: wired and DigitalIn or AnalogIn
Polled(i) == ios[i].gpio >= 0 /\ ios[i].type \in {IO_DIN, IO_AIN}

(* C6 as amended: in the second report the byte of every slot that is  *)
(* not a wired DigitalIn or AnalogIn slot is zero; a wired DigitalIn   *)
(* or AnalogIn slot reports again the sample of its line, cut to a     *)
(* byte.                                                               *)
C6_SecondHarvestZeroUnlessPolled ==
    (quietHarvests = 2 /\ Harvested)
       => \A i \in Slots :
             IF Polled(i)
             THEN Report[i + 1] = pinLevel[ios[i].gpio] % 256
             ELSE Report[i + 1] = 0

\* a second harvest in a row reported 0 for a wired Button slot and the
\* level 1 for a wired DigitalIn slot
C6_Witness ==
    /\ quietHarvests = 2
    /\ Harvested
    /\ \E i, j \in Slots :
          /\ ios[i].type = IO_BUTTON /\ ios[i].gpio >= 0 /\ Report[i + 1] = 0
          /\ ios[j].type = IO_DIN /\ ios[j].gpio >= 0 /\ Report[j + 1] = 1

(* ------------------------------------------------------------------ *)
(* C7: a harvest that nothing preempts samples the polled slots first, *)
(* then reports for each slot its valueUL of that moment and, in byte  *)
(* NB_IOS, 1 if the device is active and 0 if not; when it returns     *)
(* every valueUL is 0 and its result is true.                          *)
(* ------------------------------------------------------------------ *)
C7_HarvestReportsAndResets ==
    LET r == getData(ios, pinLevel, deviceActive)
        report == ReportOf(r.ev)
    IN /\ Len(report) = NB_IOS + 1
       /\ \A i \in Slots :
             report[i + 1] = IF Polled(i) THEN pinLevel[ios[i].gpio] % 256
                             ELSE ios[i].valueUL
       /\ report[NB_IOS + 1] = IF deviceActive THEN 1 ELSE 0
       /\ \A i \in Slots : r.ios[i].valueUL = 0
       /\ \A k \in CallsOf(r.ev, "GPIO_read") \cup CallsOf(r.ev, "GPIO_readADC"),
             m \in CallsOf(r.ev, "app_core_msg_ul_addTLV") : k < m
       /\ Cardinality(CallsOf(r.ev, "app_core_msg_ul_addTLV")) = 1
       /\ r.ret = TRUE

\* a harvest on an active device reported press type 2 for a Button slot
\* and a sample cut to a byte for an AnalogIn slot
C7_Witness ==
    /\ Harvested
    /\ Report[NB_IOS + 1] = 1
    /\ \E i, j \in Slots :
          /\ ios[i].type = IO_BUTTON /\ Report[i + 1] = 2
          /\ ios[j].type = IO_AIN /\ ios[j].gpio >= 0
          /\ pinLevel[ios[j].gpio] = ADC_OVER
          /\ Report[j + 1] = ADC_OVER % 256
    /\ \A i \in Slots : ios[i].valueUL = 0

(* ------------------------------------------------------------------ *)
(* C8: in every report of a harvest the byte of every slot whose pin   *)
(* is unassigned and of every DigitalOut or PwmOut slot is 0.          *)
(* ------------------------------------------------------------------ *)
C8_UnassignedAndOutputBytesZero ==
    Harvested
       => \A i \in Slots :
             (ios[i].gpio < 0 \/ ios[i].type \in {IO_DOUT, IO_PWMOUT})
                => Report[i + 1] = 0

\* a harvest ran on a table with a wired DigitalOut slot driven to 1 and a
\* wired Button slot whose press type 1 it reports
C8_Witness ==
    /\ Harvested
    /\ \E i, j \in Slots :
          /\ ios[i].type = IO_DOUT /\ ios[i].gpio >= 0
          /\ ios[i].valueDL = 1 /\ gpioOut[ios[i].gpio] = 1
          /\ ios[j].type = IO_BUTTON /\ Report[j + 1] = 1

(* ------------------------------------------------------------------ *)
(* C9: an edge callback whose context is no slot index changes no slot *)
(* and requests no forced report, also when the device is active.      *)
(* ------------------------------------------------------------------ *)
C9_BadIndexIgnored ==
    \A ctx \in CtxVals \ Slots, st \in SR_BUTTON_STATE_t, pt \in PressTypes :
        LET b == buttonChangeCB(ios, deviceActive, ctx, st, pt)
            c == stateInputChangeCB(ios, deviceActive, ctx, st, pt)
        IN /\ b.ios = ios
           /\ CallsOf(b.ev, "AppCore_forceUL") = {}
           /\ c.ios = ios
           /\ CallsOf(c.ev, "AppCore_forceUL") = {}

\* a button release with a context that is no slot index was dropped on an
\* active device
C9_Witness ==
    /\ deviceActive
    /\ trace = <<LogWarn("MIO:button release but bad id")>>

(* ------------------------------------------------------------------ *)
(* C10: device active, valid slot index: a state-change callback, for  *)
(* the state pressed as for released, stores the new state in the      *)
(* slot's valueUL and then requests exactly one forced report scoped   *)
(* to this module; no other slot is modified.                          *)
(* ------------------------------------------------------------------ *)
C10_StateChangeStoresThenForces ==
    deviceActive
       => \A ctx \in Slots, st \in SR_BUTTON_STATE_t, pt \in PressTypes :
             LET r == stateInputChangeCB(ios, deviceActive, ctx, st, pt)
             IN /\ r.ios = [ios EXCEPT ![ctx].valueUL = st]
                /\ StoreThenOneForceUL(r.ev, ctx, st)

\* the state pressed was stored for a StateInput slot, with press type 2
C10_Witness ==
    \E i \in Slots :
        /\ ios[i].type = IO_STATE
        /\ ios[i].valueUL = SR_BUTTON_PRESSED
        /\ deviceActive
        /\ trace = <<LogInfo("MIO:state input changed"), StoreUL(i, SR_BUTTON_PRESSED),
                     ForceULEv(MY_MOD_ID)>>

(* ------------------------------------------------------------------ *)
(* C11: a slot whose pin is unassigned is inert: initIOs, readIO,      *)
(* readIOs, writeIO and the downlink action make no hardware call      *)
(* (configure, read, write) on anything but the pins of the assigned   *)
(* slots, and leave valueUL of every unassigned slot as it was.        *)
(* ------------------------------------------------------------------ *)
HwCalls == {"GPIO_define_in", "GPIO_define_adc", "GPIO_define_out",
            "SRMgr_defineButton", "SRMgr_registerButtonCB",
            "GPIO_read", "GPIO_readADC", "GPIO_write"}

\* the pins the hardware calls of a trace are made on
HwPins(ev) == { ev[k].args[1] : k \in { j \in 1 .. Len(ev) : ev[j].call \in HwCalls } }

UnassignedSlots == { i \in Slots : ios[i].gpio < 0 }
AssignedPins == { ios[i].gpio : i \in Slots \ UnassignedSlots }

C11_UnassignedSlotInert ==
    LET Inert(c1, ev) == /\ HwPins(ev) \subseteq AssignedPins
                         /\ \A i \in UnassignedSlots : c1[i].valueUL = ios[i].valueUL
    IN /\ Inert(ios, initIOs(ios))
       /\ \A i \in Slots : LET r == readIO(ios, pinLevel, i) IN Inert(r.ios, r.ev)
       /\ LET r == readIOs(ios, pinLevel) IN Inert(r.ios, r.ev)
       /\ \A i \in Slots, val \in Bytes : Inert(ios, writeIO(ios, i, val))
       /\ \A v \in Payloads : LET r == iosetAction(ios, v, Len(v)) IN Inert(r.ios, r.ev)

\* a downlink has set valueDL of an unassigned DigitalOut slot and made no
\* hardware call but on assigned pins
C11_Witness ==
    /\ \E i \in UnassignedSlots :
          /\ ios[i].type = IO_DOUT
          /\ \E k \in CallsOf(trace, "valueDL") : trace[k] = StoreDL(i, MaxByte)
    /\ CallsOf(trace, "log_info") # {}
    /\ HwPins(trace) \subseteq AssignedPins

(* ------------------------------------------------------------------ *)
(* C12: readIO(index) returns 0 and changes nothing whenever index is  *)
(* no slot index or the pin of the slot is unassigned, whatever the    *)
(* stored valueUL of the slot is.                                       *)
(* ------------------------------------------------------------------ *)
ReadIndexes == Slots \cup CtxVals

C12_ReadInvalidOrUnassignedReturnsZero ==
    \A i \in ReadIndexes :
        (i \notin Slots \/ ios[i].gpio < 0)
           => LET r == readIO(ios, pinLevel, i)
              IN r.ret = 0 /\ r.ios = ios /\ r.ev = <<>>

(* C12 as amended: readIO(index) changes nothing and reads no line     *)
(* whenever index is no slot index or the pin of the slot is           *)
(* unassigned; it returns 0 for an index that is no slot index and the *)
(* stored valueUL of the slot for a slot whose pin is unassigned.      *)
C12_ReadInvalidZeroUnassignedStored ==
    \A i \in ReadIndexes :
        (i \notin Slots \/ ios[i].gpio < 0)
           => LET r == readIO(ios, pinLevel, i)
              IN /\ r.ret = IF i \in Slots THEN ios[i].valueUL ELSE 0
                 /\ r.ios = ios
                 /\ r.ev = <<>>

\* a harvest has reported the value an unassigned slot held: the readIO
\* pass before the copy left it as it was, and readIO returns it
C12_Witness ==
    /\ Harvested
    /\ \E i \in UnassignedSlots :
          /\ Report[i + 1] = MaxPressType
          /\ \A v \in PressTypes :
                readIO([ios EXCEPT ![i].valueUL = v], pinLevel, i).ret = v

(* ------------------------------------------------------------------ *)
(* C13: writeIO(index, value) on a DigitalOut slot with an assigned    *)
(* pin drives the line of the slot to the argument value, for every    *)
(* value and every stored valueDL; for an index that is no slot index, *)
(* an unassigned pin or a slot that is no output it writes no line.    *)
(* ------------------------------------------------------------------ *)
C13_WriteDrivesArgument ==
    \A i \in Slots \cup CtxVals, val \in Bytes :
        LET ev == writeIO(ios, i, val)
        IN IF i \in Slots /\ ios[i].gpio >= 0 /\ ios[i].type = IO_DOUT
           THEN /\ ev = <<GpioWriteEv(ios[i].gpio, val)>>
                /\ DriveLines(gpioOut, ev)[ios[i].gpio] = val
           ELSE /\ CallsOf(ev, "GPIO_write") = {}
                /\ DriveLines(gpioOut, ev) = gpioOut

(* ------------------------------------------------------------------ *)
(* C14: defineIO with a slot number outside 0 .. NB_IOS-1 fails        *)
(* without effect: no slot of the table is modified and nothing        *)
(* outside the table is written.                                       *)
(* ------------------------------------------------------------------ *)
C14_DefineOutOfRangeNoEffect ==
    \A ioid \in DefIds \ Slots, cfg \in DefCfgs :
        LET r == defineIO(ios, ioid, cfg.gpio, cfg.type, cfg.init)
        IN /\ r.ios = ios
           /\ \A k \in CallsOf(r.ev, "ios[ioid]") : r.ev[k].args[1] \in Slots

(* ------------------------------------------------------------------ *)
(* C15: only the harvest resets valueUL to 0: in every reachable       *)
(* state no edge callback, for any state and press type it is invoked  *)
(* with, changes valueUL of a slot from a non-zero value to 0.         *)
(* ------------------------------------------------------------------ *)
\* the callback the button manager holds as r, applied to the state
EdgeCB(r, st, pt) ==
    IF r.cb = "buttonChangeCB"
    THEN buttonChangeCB(ios, deviceActive, r.ctx, st, pt)
    ELSE stateInputChangeCB(ios, deviceActive, r.ctx, st, pt)

\* the code a callback stores: the press type for a button, the state for
\* a state input
EdgeCode(r, st, pt) == IF r.cb = "buttonChangeCB" THEN ToU8(pt) ELSE ToU8(st)

C15_CallbackNeverClears ==
    \A r \in registered, st \in SR_BUTTON_STATE_t, pt \in PressTypes :
        \A i \in Slots :
            ios[i].valueUL # 0 => EdgeCB(r, st, pt).ios[i].valueUL # 0

(* C15 as amended: an edge callback changes valueUL of no slot but the *)
(* one of its context, and of that one only by storing the code it is  *)
(* invoked with (press type for a button, state for a state input); it *)
(* changes a non-zero valueUL to 0 only when that code is 0.           *)
C15_CallbackStoresItsCodeOnly ==
    \A r \in registered, st \in SR_BUTTON_STATE_t, pt \in PressTypes :
        LET res == EdgeCB(r, st, pt)
        IN \A i \in Slots :
              /\ res.ios[i].valueUL # ios[i].valueUL
                    => /\ i = r.ctx
                       /\ res.ios[i].valueUL = EdgeCode(r, st, pt)
              /\ (ios[i].valueUL # 0 /\ res.ios[i].valueUL = 0)
                    => /\ EdgeCode(r, st, pt) = 0
                       /\ \E k \in CallsOf(res.ev, "valueUL") : res.ev[k] = StoreUL(i, 0)

\* a state input slot holds the code of the pressed state and the
\* state-change callback, invoked with the released state, stores 0 in it
C15_Witness ==
    \E r \in registered :
        /\ r.cb = "stateInputChangeCB"
        /\ deviceActive
        /\ ios[r.ctx].valueUL = SR_BUTTON_PRESSED
        /\ EdgeCB(r, SR_BUTTON_RELEASED, MaxPressType).ios[r.ctx].valueUL = 0
        /\ \E k \in CallsOf(trace, "valueUL") : trace[k] = StoreUL(r.ctx, SR_BUTTON_PRESSED)

(* ------------------------------------------------------------------ *)
(* C16: polling never touches a Button or StateInput slot: readIO and  *)
(* readIOs leave its valueUL as it was and read no line for it; the    *)
(* downlink action leaves it as it was too, so that between harvests   *)
(* only an edge callback changes it.                                   *)
(* ------------------------------------------------------------------ *)
EdgeSlots == { i \in Slots : ios[i].type \in {IO_BUTTON, IO_STATE} }

\* the pins a trace samples
ReadPins(ev) == { ev[k].args[1] : k \in CallsOf(ev, "GPIO_read") \cup CallsOf(ev, "GPIO_readADC") }

C16_PollingLeavesEdgeSlots ==
    \A i \in EdgeSlots :
        /\ LET r == readIO(ios, pinLevel, i)
           IN r.ios = ios /\ r.ev = <<>>
        /\ LET r == readIOs(ios, pinLevel)
           IN /\ r.ios[i].valueUL = ios[i].valueUL
              /\ ios[i].gpio \notin ReadPins(r.ev)
              /\ \A k \in CallsOf(r.ev, "valueUL") : r.ev[k].args[1] # i
        /\ \A v \in Payloads :
              iosetAction(ios, v, Len(v)).ios[i].valueUL = ios[i].valueUL

\* a harvest has sampled the line of a polled slot and reported, for a
\* wired StateInput slot, the state code its callback had stored
C16_Witness ==
    /\ Harvested
    /\ ReadPins(trace) # {}
    /\ \E i \in EdgeSlots :
          /\ ios[i].type = IO_STATE
          /\ ios[i].gpio >= 0
          /\ ios[i].gpio \notin ReadPins(trace)
          /\ Report[i + 1] = SR_BUTTON_PRESSED

(* ------------------------------------------------------------------ *)
(* C17: with the edge callbacks running only between host operations,  *)
(* an edge value accepted for a slot is reported at most once: the     *)
(* next harvest reports the value most recently stored for the slot    *)
(* since the previous harvest, and every later harvest reports 0 for   *)
(* it until a new edge is accepted for it.                             *)
(* ------------------------------------------------------------------ *)
\* the slots a callback is registered for
CallbackSlots == { r.ctx : r \in registered }

\* the report the next harvest hands over, taken in the current state
NextReport == ReportOf(getData(ios, pinLevel, deviceActive).ev)

C17_EdgeReportedAtMostOnce ==
    \A i \in CallbackSlots :
        NextReport[i + 1] = IF lastEdge[i] = NoEdge THEN 0 ELSE lastEdge[i]

\* a harvest has reported the edge value of a slot, no edge came since,
\* and the next harvest reports 0 for the slot
C17_Witness ==
    /\ Harvested
    /\ quietHarvests = 1
    /\ \E i \in CallbackSlots :
          /\ Report[i + 1] = MaxPressType
          /\ lastEdge[i] = NoEdge
          /\ NextReport[i + 1] = 0

(* ------------------------------------------------------------------ *)
(* C18: the block a harvest hands to the uplink encoder never extends  *)
(* past the array getData built: the length it declares to the encoder *)
(* is at most the NB_IOS + 1 bytes of the array, so every byte of the  *)
(* block is a slot value or the device-active flag.                    *)
(* ------------------------------------------------------------------ *)
C18_DeclaredLengthWithinArray ==
    Harvested
       => \A k \in CallsOf(trace, "app_core_msg_ul_addTLV") :
             /\ Len(trace[k].data) = NB_IOS + 1
             /\ trace[k].args[1] <= Len(trace[k].data)

(* ------------------------------------------------------------------ *)
(* C19: for every DigitalOut slot with an assigned pin, after          *)
(* mod_io_init and after any sequence of downlinks (accepted or        *)
(* rejected), harvests and edge callbacks, the level last driven on    *)
(* the line equals valueDL of the slot; for a PwmOut slot a downlink   *)
(* updates valueDL and no hardware write is ever issued.               *)
(* ------------------------------------------------------------------ *)
C19_LineFollowsValueDL ==
    \A i \in Slots :
        /\ (ios[i].gpio >= 0 /\ ios[i].type = IO_DOUT)
              => gpioOut[ios[i].gpio] = ios[i].valueDL
        /\ ios[i].type = IO_PWMOUT
              => /\ ios[i].gpio >= 0 => gpioOut[ios[i].gpio] = 0 - 1
                 /\ \A v \in Payloads :
                       LET r == iosetAction(ios, v, Len(v))
                       IN /\ r.ios[i].valueDL = IF Len(v) = NB_IOS THEN v[i + 1]
                                                                    ELSE ios[i].valueDL
                          /\ \A k \in CallsOf(r.ev, "GPIO_write") :
                                r.ev[k].args[1] # ios[i].gpio

\* a downlink has driven the line of a wired DigitalOut slot to a new
\* level and set valueDL of a wired PwmOut slot, whose line was never
\* driven
C19_Witness ==
    /\ \E i \in Slots :
          /\ ios[i].gpio >= 0 /\ ios[i].type = IO_DOUT
          /\ ios[i].valueDL = MaxByte
          /\ gpioOut[ios[i].gpio] = MaxByte
          /\ \E k \in CallsOf(trace, "GPIO_write") :
                trace[k] = GpioWriteEv(ios[i].gpio, MaxByte)
    /\ \E j \in Slots :
          /\ ios[j].gpio >= 0 /\ ios[j].type = IO_PWMOUT
          /\ \E k \in CallsOf(trace, "valueDL") : trace[k].args[1] = j
          /\ gpioOut[ios[j].gpio] = 0 - 1

====
